---------------------------- MODULE Spec2Model ----------------------------
(***************************************************************************)
(* A model of the sqlexp semantic analyzer: the naming scope (scope.py),   *)
(* the memo (memo.py) and the SELECT analyzer (sql.py).                    *)
(*                                                                         *)
(* Strings are sequences of tokens: an identifier without a dot is one     *)
(* token, and "." , "(" , ")" and " " are tokens of their own, so that     *)
(* "kv.k" is <<"kv", ".", "k">> and the anonymous alias '' is <<>>.        *)
(* Memo indices are 0-based as in the code; Python's None is None.         *)
(***************************************************************************)
EXTENDS Integers, Sequences, FiniteSets, TLC

VARIABLES
    classes,   \* memo.classes: the list of classes
    heap,      \* the Set objects that neededcols properties refer to
    root,      \* memo.root
    scopes,    \* the scope objects; a scope is named by its position
    stack,     \* the call stack of the analyzer, innermost frame last
    ret,       \* the value returned by the call that finished last
    status,    \* "idle", "running", "done" or "error"
    err,       \* the message of the exception raised, <<>> when none
    query,     \* the clauses of the query read so far, in the order read
    corr,      \* the results of the SELECTs whose WHERE named an outer column
    nbind,     \* number of bind calls the scope driver has made
    trace      \* what the last step did (the operation and its operands)

vars == <<classes, heap, root, scopes, stack, ret, status, err, query, corr,
          nbind, trace>>

None == -1

-----------------------------------------------------------------------------
(* Bounds of the model.                                                    *)

\* most scopes the scope driver creates
MaxScopes == 2
\* most bind calls the scope driver makes
MaxBinds == 3
\* most SELECT forms in one analyzed query
MaxSelects == 2
\* most entries in a projection list or a FROM list
MaxList == 2

-----------------------------------------------------------------------------
(* Strings.                                                                *)

Str(w) == <<w>>

Qual(tn, colname) == tn \o <<".">> \o colname

HasDot(name) == \E i \in 1..Len(name) : name[i] = "."

FirstDot(name) ==
    CHOOSE i \in 1..Len(name) :
        /\ name[i] = "."
        /\ \A j \in 1..(i - 1) : name[j] # "."

\* name.split('.', 1)
Split(name) ==
    LET i == FirstDot(name)
    IN  <<SubSeq(name, 1, i - 1), SubSeq(name, i + 1, Len(name))>>

-----------------------------------------------------------------------------
(* scope.py.  A scope object is [parent, scope]: parent is the position of *)
(* the parent scope (None for no parent) and scope is the dict, kept as    *)
(* the sequence of its items <<tn, d>> in insertion order, d being the     *)
(* inner dict colname -> idx.                                              *)

NewScopeObj(parent) == [parent |-> parent, scope |-> <<>>]

Keys(dict) == {dict[i][1] : i \in 1..Len(dict)}

PosOf(dict, tn) == CHOOSE i \in 1..Len(dict) : dict[i][1] = tn

\* dict.get(tn, {})
GetOrEmpty(dict, tn) == IF tn \in Keys(dict) THEN dict[PosOf(dict, tn)][2] ELSE <<>>

\* d.get(colname, None)
GetOrNone(d, colname) == IF colname \in DOMAIN d THEN d[colname] ELSE None

\* dict[tn] = d : an existing key keeps its place, a new one goes last
SetItem(dict, tn, d) ==
    IF tn \in Keys(dict)
    THEN [dict EXCEPT ![PosOf(dict, tn)] = <<tn, d>>]
    ELSE Append(dict, <<tn, d>>)

\* scope.bind
bind(sc, tn, colname, idx) ==
    LET d == GetOrEmpty(sc.scope, tn)
        d2 == (colname :> idx) @@ d
    IN  [sc EXCEPT !.scope = SetItem(sc.scope, tn, d2)]

\* the for loop of _lookup: the first inner dict, in order, that has colname
ScanValues(dict, colname) ==
    LET hits == {i \in 1..Len(dict) : colname \in DOMAIN dict[i][2]}
    IN  IF hits = {} THEN None
        ELSE LET first == CHOOSE i \in hits : \A j \in hits : i <= j
             IN  dict[first][2][colname]

RECURSIVE _lookup(_, _, _, _)
\* scope._lookup, on the scope at position s of scs
_lookup(scs, s, tn, colname) ==
    LET sc == scs[s]
        scan == IF tn = <<>> THEN ScanValues(sc.scope, colname) ELSE None
    IN  IF tn \in Keys(sc.scope)
        THEN GetOrNone(GetOrEmpty(sc.scope, tn), colname)
        ELSE IF scan # None THEN scan
        ELSE IF sc.parent = None THEN None
        ELSE _lookup(scs, sc.parent, tn, colname)

\* lookup(sc, name)
lookup(scs, s, name) ==
    IF HasDot(name)
    THEN _lookup(scs, s, Split(name)[1], Split(name)[2])
    ELSE _lookup(scs, s, <<>>, name)

-----------------------------------------------------------------------------
(* sqlio.py: the expressions handed to the analyzer.                       *)
(*   Sym(name)            a Symbol                                         *)
(*   IntLit(n)            an int literal                                   *)
(*   Op(op, args)         Exp(op, [args...])                               *)
(*   PropsOp(op)          Exp(op, Props): (op :label value ...)            *)
(*   Select               Exp('select', Props): its :from, :where and      *)
(*                        :exprs are read when analyze_select reaches them *)
(*   Labelled(key, e)     the one-entry Props (:key e) of a projection     *)
(*   List(items)          a [ ... ] list                                   *)
(*   Absent               a clause the SELECT form does not have (None)    *)

Sym(name) == [t |-> "sym", name |-> name]
IntLit(n) == [t |-> "int", val |-> n]
Op(o, args) == [t |-> "exp", op |-> o, list |-> TRUE, args |-> args]
PropsOp(o) == [t |-> "exp", op |-> o, list |-> FALSE, args |-> <<>>]
Select == PropsOp("select")
Labelled(key, e) == [t |-> "props", key |-> key, val |-> e]
List(items) == [t |-> "list", items |-> items]
Absent == [t |-> "none"]

\* op(exp)
op(exp) == IF exp.t = "exp" THEN exp.op ELSE "None"

Digits == <<"0", "1", "2", "3", "4", "5", "6", "7", "8", "9">>

RECURSIVE JoinArgs(_, _)
RECURSIVE dumps(_)
\* sexpdata.dumps of a Symbol, a one-digit int or an Exp over a list
dumps(exp) ==
    CASE exp.t = "sym" -> exp.name
      [] exp.t = "int" /\ exp.val \in 0..9 -> <<Digits[exp.val + 1]>>
      [] exp.t = "exp" /\ exp.list -> <<"(", exp.op>> \o JoinArgs(exp.args, 1) \o <<")">>

JoinArgs(args, i) ==
    IF i > Len(args) THEN <<>>
    ELSE <<" ">> \o dumps(args[i]) \o JoinArgs(args, i + 1)

\* tocolname(exp)
tocolname(exp) == dumps(exp)

RECURSIVE CountSelects(_)
\* the number of SELECT forms in an expression
CountSelects(exp) ==
    LET RECURSIVE Sum(_, _)
        Sum(items, i) ==
            IF i > Len(items) THEN 0
            ELSE CountSelects(items[i]) + Sum(items, i + 1)
    IN  CASE exp.t = "exp" /\ exp.op = "select" /\ ~exp.list -> 1
          [] exp.t = "exp" /\ exp.list -> Sum(exp.args, 1)
          [] exp.t = "list" -> Sum(exp.items, 1)
          [] exp.t = "props" -> CountSelects(exp.val)
          [] OTHER -> 0

-----------------------------------------------------------------------------
(* memo.py.  A class is [mexpr, props]: mexpr is [op, args] (the only      *)
(* m-expression of the class) and props is the property record.  A scalar  *)
(* class has props [neededcols]; a relational class has props [cols, outs, *)
(* labels, neededcols].  neededcols is a reference into heap (the Set      *)
(* object, which several classes may share), or None.                      *)

Exp(o, args) == [op |-> o, args |-> args]

\* memo[idx]
Cls(idx) == classes[idx + 1]

\* variant: the new class is put in front of the others
newclsFront(cs, item, props) == <<[mexpr |-> item, props |-> props]>> \o cs

\* memo.newcls: the classes after the append; the index returned is NextIdx
newcls(cs, item, props) == Append(cs, [mexpr |-> item, props |-> props])

NextIdx == Len(classes)

\* variant: every Set object starts empty
AllocEmpty(h, val) == Append(h, {})

\* Set(val): the heap after allocating a Set object; its reference is NewRef
Alloc(h, val) == Append(h, val)

NewRef(h) == Len(h) + 1

\* the value of the Set that class idx has as neededcols
NeededOf(h, cs, idx) == h[cs[idx + 1].props.neededcols]

neededcols(idx) == NeededOf(heap, classes, idx)

IsRel(c) == "cols" \in DOMAIN c.props

\* add_scalar_exp / add_rel_exp: the asserted keys are present in every props
\* record built below, so both reduce to memo.newcls
add_scalar_exp(cs, mexpr, props) == newcls(cs, mexpr, props)

add_rel_exp(cs, mexpr, props) == newcls(cs, mexpr, props)

\* Set(idxs)
SetOf(seq) == {seq[i] : i \in 1..Len(seq)}

-----------------------------------------------------------------------------
(* sql.py: the catalog.                                                    *)

tables ==
    (Str("kv") :> <<Str("k"), Str("v")>>) @@ (Str("ab") :> <<Str("a"), Str("b")>>)

-----------------------------------------------------------------------------
(* sql.py: the call stack.  One frame per call in progress, holding the    *)
(* function's arguments and locals and the place (pc) where it continues.  *)

SelectFrame(env, exp) ==
    [fn |-> "analyze_select", pc |-> "start", env |-> env, exp |-> exp,
     here |-> None, srcidx |-> None, labels |-> <<>>, eexprs |-> <<>>,
     idxs |-> <<>>, outer |-> FALSE]

FromFrame(env, exp) ==
    [fn |-> "analyze_from", pc |-> "start", env |-> env, exp |-> exp,
     idxs |-> <<>>, lbls |-> <<>>, cols |-> <<>>, outs |-> {}]

DsFrame(env, exp) ==
    [fn |-> "get_datasource", pc |-> "start", env |-> env, exp |-> exp,
     tn |-> <<>>, colnum |-> 0, varidx |-> None, vars |-> <<>>, lbls |-> <<>>]

ScalarFrame(env, exp) ==
    [fn |-> "analyze_scalar", pc |-> "start", env |-> env, exp |-> exp,
     idxs |-> <<>>]

HandleFrame == [fn |-> "handle_sql", pc |-> "ret"]

Top == stack[Len(stack)]

Rest == SubSeq(stack, 1, Len(stack) - 1)

At(fn, pc) == status = "running" /\ Len(stack) > 0 /\ Top.fn = fn /\ Top.pc = pc

\* the caller's frame after the step, then the frame of the call it makes
Call(frame, callee) == stack' = Rest \o <<frame, callee>>

Goto(frame) == stack' = Rest \o <<frame>>

\* return v
Return(v) == stack' = Rest /\ ret' = v

\* variant: the exception carries no message
throwNoMessage(msg) ==
    /\ status' = "error"
    /\ err' = <<>>
    /\ stack' = <<>>
    /\ ret' = None

\* throw(s): the exception unwinds every frame; handle_sql does not catch it
throw(msg) ==
    /\ status' = "error"
    /\ err' = msg
    /\ stack' = <<>>
    /\ ret' = None

-----------------------------------------------------------------------------
(* The scope driver: the calls of the scope doctest (scope(parent), bind,  *)
(* lookup) in any order on a chain of scopes.                              *)

DrvAliases == {<<>>, Str("kv")}
DrvCols == {Str("k"), Str("v")}
DrvIdx == {1, 2}
DrvNames == DrvCols \cup {Qual(Str("kv"), c) : c \in DrvCols}

NoTrace == [op |-> "none"]

InitScope ==
    /\ classes = <<>>
    /\ heap = <<>>
    /\ root = None
    /\ scopes = <<NewScopeObj(None)>>
    /\ stack = <<>>
    /\ ret = None
    /\ status = "idle"
    /\ err = <<>>
    /\ query = <<>>
    /\ corr = {}
    /\ nbind = 0
    /\ trace = NoTrace

memoVars == <<classes, heap, root, stack, status, err, query, corr>>

\* s = scope(parent)
ScopeNew(p) ==
    /\ Len(scopes) < MaxScopes
    /\ scopes' = Append(scopes, NewScopeObj(p))
    /\ trace' = [op |-> "scope", sc |-> Len(scopes) + 1]
    /\ ret' = None
    /\ UNCHANGED <<memoVars, nbind>>

\* s.bind(tn, colname, idx)
ScopeBind(s, tn, colname, idx) ==
    /\ nbind < MaxBinds
    /\ scopes' = [scopes EXCEPT ![s] = bind(scopes[s], tn, colname, idx)]
    /\ nbind' = nbind + 1
    /\ trace' = [op |-> "bind", sc |-> s, tn |-> tn, colname |-> colname, idx |-> idx]
    /\ ret' = None
    /\ UNCHANGED memoVars

\* lookup(s, name)
ScopeLookup(s, name) ==
    /\ ret' = lookup(scopes, s, name)
    /\ trace' = [op |-> "lookup", sc |-> s, name |-> name]
    /\ UNCHANGED <<memoVars, scopes, nbind>>

NextScope ==
    \/ \E p \in DOMAIN scopes \cup {None} : ScopeNew(p)
    \/ \E s \in DOMAIN scopes, tn \in DrvAliases, c \in DrvCols, i \in DrvIdx :
          ScopeBind(s, tn, c, i)
    \/ \E s \in DOMAIN scopes, n \in DrvNames : ScopeLookup(s, n)

SpecScope == InitScope /\ [][NextScope]_vars

-----------------------------------------------------------------------------
(* Reference semantics of lookup, as the design states it.                 *)

\* the indices the table of scope sc binds for the bare name colname
BareBinders(sc, colname) ==
    {sc.scope[i][2][colname] :
        i \in {j \in 1..Len(sc.scope) : colname \in DOMAIN sc.scope[j][2]}}

RECURSIVE RefBare(_, _, _)
\* the results a bare lookup may give: a binding of the nearest scope that
\* binds the name under any alias, None when no scope of the chain does
RefBare(scs, s, colname) ==
    LET sc == scs[s]
    IN  IF BareBinders(sc, colname) # {} THEN BareBinders(sc, colname)
        ELSE IF sc.parent = None THEN {None}
        ELSE RefBare(scs, sc.parent, colname)

RECURSIVE RefQual(_, _, _, _)
\* the result of a qualified lookup: the binding of the nearest scope that
\* binds exactly (tn, colname), None when no scope of the chain does
RefQual(scs, s, tn, colname) ==
    LET sc == scs[s]
        here == GetOrNone(GetOrEmpty(sc.scope, tn), colname)
    IN  IF here # None THEN here
        ELSE IF sc.parent = None THEN None
        ELSE RefQual(scs, sc.parent, tn, colname)

\* C1: a bare-name lookup returns a binding of the nearest scope of the chain
\* that binds the name under any alias (the anonymous alias '' included), and
\* None only when no scope of the chain binds it.
C1_BareLookup ==
    (trace.op = "lookup" /\ ~HasDot(trace.name))
        => ret \in RefBare(scopes, trace.sc, trace.name)

\* C2: a qualified lookup alias.column returns the binding of the nearest
\* scope of the chain that binds exactly (alias, column), also when the
\* current table has the alias without that column; None when none does.
C2_QualLookup ==
    (trace.op = "lookup" /\ HasDot(trace.name))
        => ret = RefQual(scopes, trace.sc, Split(trace.name)[1], Split(trace.name)[2])

-----------------------------------------------------------------------------
(* The inputs.  A query is read as the analyzer reaches its parts: the     *)
(* scalar expressions and FROM sources are whole expressions, and the      *)
(* clauses of each SELECT form in them are drawn when analyze_select reads *)
(* them.  A projection with its label omitted has no SELECT form in it, so *)
(* that its label is the text of a whole expression.                       *)

k == Str("k")
v == Str("v")
a == Str("a")
x == Str("x")
kv == Str("kv")
ab == Str("ab")
zz == Str("zz")

OpExps == {Op("+", <<Sym(k), Sym(v)>>), Op("=", <<Sym(a), Sym(k)>>)}

SubqueryExps == {Op("exists", <<Select>>), Select}

\* shapes that analyze_scalar rejects
BadScalars == {List(<<>>), PropsOp("foo"), Op("exists", <<Sym(k)>>)}

WhereChoices ==
    {Absent, Sym(k), Sym(x), Op("=", <<Sym(a), Sym(k)>>)}
        \cup SubqueryExps \cup BadScalars

SeqsUpTo(S, n) == UNION {[1..m -> S] : m \in 0..n}

\* a table, an unknown table, a subquery, a shape get_datasource rejects,
\* or a list of sources
FromChoices ==
    {Absent, Sym(kv), Sym(ab), Sym(zz), Select, IntLit(1)}
        \cup {List(l) : l \in SeqsUpTo({Sym(kv), Select}, MaxList)}

Targets == {Sym(k), Sym(v), Labelled(x, Sym(k))}

ExprsChoices ==
    {Absent, Sym(x), Sym(Qual(kv, k)), IntLit(1),
     List(<<Labelled(x, Op("exists", <<Select>>))>>)}
        \cup OpExps \cup {List(l) : l \in SeqsUpTo(Targets, MaxList)}

\* the number of SELECT forms read so far: the query itself and those in
\* the clauses read
SelectsRead ==
    LET RECURSIVE Sum(_)
        Sum(i) == IF i > Len(query) THEN 0 ELSE CountSelects(query[i]) + Sum(i + 1)
    IN  1 + Sum(1)

\* the SELECT forms still allowed leave room for those of exp
Fits(exp) == SelectsRead + CountSelects(exp) <= MaxSelects

-----------------------------------------------------------------------------
(* sql.py: handle_sql.                                                     *)

Init ==
    /\ classes = <<>>
    /\ heap = <<>>
    /\ root = None
    /\ scopes = <<>>
    /\ stack = <<>>
    /\ ret = None
    /\ status = "idle"
    /\ err = <<>>
    /\ query = <<>>
    /\ corr = {}
    /\ nbind = 0
    /\ trace = NoTrace

\* m = memo(); analyze_select(m, scope(None), exp) is called
HandleSql ==
    /\ status = "idle"
    /\ status' = "running"
    /\ scopes' = <<NewScopeObj(None)>>
    /\ stack' = <<HandleFrame, SelectFrame(1, Select)>>
    /\ trace' = [op |-> "handle_sql"]
    /\ UNCHANGED <<classes, heap, root, ret, err, query, corr, nbind>>

\* m.root = the index analyze_select returned
HandleRoot ==
    /\ At("handle_sql", "ret")
    /\ root' = ret
    /\ status' = "done"
    /\ stack' = <<>>
    /\ trace' = [op |-> "root"]
    /\ UNCHANGED <<classes, heap, scopes, ret, err, query, corr, nbind>>

-----------------------------------------------------------------------------
(* sql.py: analyze_scalar.                                                 *)

\* the union of the needed columns of the operands
\* variant: the new class also needs itself
UnionNeededSelf(h, cs, idxs) ==
    UNION {NeededOf(h, cs, idxs[i]) : i \in 1..Len(idxs)} \cup {Len(cs)}

\* variant: only the first operand's needed columns are kept
UnionNeededFirst(h, cs, idxs) ==
    IF Len(idxs) = 0 THEN {} ELSE NeededOf(h, cs, idxs[1])

UnionNeeded(h, cs, idxs) == UNION {NeededOf(h, cs, idxs[i]) : i \in 1..Len(idxs)}

\* the class of a scalar operator over the operand classes idxs
OperatorClass(h, cs, o, idxs) ==
    [classes |-> add_scalar_exp(cs, Exp(o, idxs), [neededcols |-> NewRef(h)]),
     heap |-> Alloc(h, UnionNeeded(h, cs, idxs))]

\* the class of EXISTS / apply over the relational class idx: its neededcols
\* is the Set object of class idx itself
SubqueryClass(cs, tag, idx) ==
    add_scalar_exp(cs, Exp(tag, <<idx>>), [neededcols |-> cs[idx + 1].props.neededcols])

\* the name resolves in scope s only through the parent chain
ResolvedOutside(scs, s, name) ==
    /\ lookup(scs, s, name) # None
    /\ lookup([scs EXCEPT ![s].parent = None], s, name) = None

\* note in the frame of the SELECT whose WHERE condition is being analyzed
\* (the nearest frame that is not an analyze_scalar one) that the condition
\* named a column of an enclosing scope
MarkOuter(stk) ==
    LET js == {j \in 1..Len(stk) : stk[j].fn # "analyze_scalar"}
        top == CHOOSE j \in js : \A i \in js : i <= j
    IN  IF stk[top].fn = "analyze_select" /\ stk[top].pc = "where_ret"
        THEN [stk EXCEPT ![top].outer = TRUE]
        ELSE stk

ScalarBegin ==
    /\ At("analyze_scalar", "start")
    /\ LET f == Top
           exp == f.exp
       IN  IF exp.t = "sym" THEN
               LET idx == lookup(scopes, f.env, exp.name)
               IN  /\ trace' = [op |-> "lookup", sc |-> f.env, name |-> exp.name]
                   /\ IF idx = None
                      THEN throw(<<"unknown column: ">> \o exp.name)
                      ELSE /\ ret' = idx
                           /\ stack' = IF ResolvedOutside(scopes, f.env, exp.name)
                                        THEN MarkOuter(Rest) ELSE Rest
                           /\ UNCHANGED <<status, err>>
                   /\ UNCHANGED <<classes, heap>>
           ELSE IF exp.t = "int" THEN
               /\ classes' = add_scalar_exp(classes, Exp("lit", <<exp.val>>),
                                            [neededcols |-> NewRef(heap)])
               /\ heap' = Alloc(heap, {})
               /\ Return(NextIdx)
               /\ trace' = [op |-> "lit"]
               /\ UNCHANGED <<status, err>>
           ELSE IF op(exp) = "exists" THEN
               /\ Call([f EXCEPT !.pc = "exists_ret"], SelectFrame(f.env, exp.args[1]))
               /\ trace' = [op |-> "exists"]
               /\ UNCHANGED <<classes, heap, ret, status, err>>
           ELSE IF op(exp) = "select" THEN
               /\ Call([f EXCEPT !.pc = "apply_ret"], SelectFrame(f.env, exp))
               /\ trace' = [op |-> "apply"]
               /\ UNCHANGED <<classes, heap, ret, status, err>>
           ELSE IF exp.t = "exp" THEN
               IF ~exp.list THEN
                   /\ throw(<<"unknown scalar expr type: ", exp.op>>)
                   /\ trace' = [op |-> "throw"]
                   /\ UNCHANGED <<classes, heap>>
               ELSE IF Len(exp.args) = 0 THEN
                   LET r == OperatorClass(heap, classes, exp.op, <<>>)
                   IN  /\ classes' = r.classes
                       /\ heap' = r.heap
                       /\ Return(NextIdx)
                       /\ trace' = [op |-> "operator"]
                       /\ UNCHANGED <<status, err>>
               ELSE
                   /\ Call([f EXCEPT !.pc = "arg_ret"], ScalarFrame(f.env, exp.args[1]))
                   /\ trace' = [op |-> "operand"]
                   /\ UNCHANGED <<classes, heap, ret, status, err>>
           ELSE
               /\ throw(<<"unknown scalar expression">>)
               /\ trace' = [op |-> "throw"]
               /\ UNCHANGED <<classes, heap>>
    /\ UNCHANGED <<root, scopes, query, corr, nbind>>

\* an operand has been analyzed: analyze the next, or make the operator's class
ScalarArg ==
    /\ At("analyze_scalar", "arg_ret")
    /\ LET f == Top
           idxs == Append(f.idxs, ret)
       IN  IF Len(idxs) < Len(f.exp.args) THEN
               /\ Call([f EXCEPT !.idxs = idxs],
                       ScalarFrame(f.env, f.exp.args[Len(idxs) + 1]))
               /\ trace' = [op |-> "operand"]
               /\ UNCHANGED <<classes, heap, ret>>
           ELSE
               LET r == OperatorClass(heap, classes, f.exp.op, idxs)
               IN  /\ classes' = r.classes
                   /\ heap' = r.heap
                   /\ Return(NextIdx)
                   /\ trace' = [op |-> "operator"]
    /\ UNCHANGED <<root, scopes, status, err, query, corr, nbind>>

\* the subquery of an EXISTS or of a scalar subquery has been analyzed
ScalarSubquery ==
    /\ status = "running" /\ Len(stack) > 0
    /\ Top.fn = "analyze_scalar" /\ Top.pc \in {"exists_ret", "apply_ret"}
    /\ LET tag == IF Top.pc = "exists_ret" THEN "exists" ELSE "apply"
       IN  /\ classes' = SubqueryClass(classes, tag, ret)
           /\ trace' = [op |-> tag, sub |-> ret]
    /\ Return(NextIdx)
    /\ UNCHANGED <<heap, root, scopes, status, err, query, corr, nbind>>

-----------------------------------------------------------------------------
(* sql.py: get_datasource.                                                 *)

\* variant: the first output is bound under the alias kv
BindOutputsAsTable(sc, labels, cols, i) ==
    IF Len(labels) = 0 \/ Len(cols) = 0 THEN sc
    ELSE bind(sc, Str("kv"), labels[1], cols[1])

RECURSIVE BindOutputs(_, _, _, _)
\* for l, idx in zip(labels, cols): env.bind('', l, idx), from position i on
BindOutputs(sc, labels, cols, i) ==
    IF i > Len(labels) \/ i > Len(cols) THEN sc
    ELSE BindOutputs(bind(sc, <<>>, labels[i], cols[i]), labels, cols, i + 1)

\* variant: the Set object at ref is emptied
DifferenceUpdateClear(h, ref, outs) == [h EXCEPT ![ref] = {}]

\* neededcols.difference_update(outs) on the Set object at ref
DifferenceUpdate(h, ref, outs) == [h EXCEPT ![ref] = h[ref] \ outs]

\* the properties of a scan over the variables vs
ScanProps(vs, lbls, ref) ==
    [cols |-> vs, outs |-> SetOf(vs), labels |-> lbls, neededcols |-> ref]

DsBegin ==
    /\ At("get_datasource", "start")
    /\ LET f == Top
           exp == f.exp
       IN  IF exp.t = "sym" THEN
               IF exp.name \notin DOMAIN tables
               THEN /\ throw(<<"unknown table: ">> \o exp.name)
                    /\ trace' = [op |-> "throw"]
               ELSE /\ Goto([f EXCEPT !.tn = exp.name,
                                      !.pc = IF Len(tables[exp.name]) = 0
                                             THEN "scan" ELSE "var"])
                    /\ trace' = [op |-> "table"]
                    /\ UNCHANGED <<ret, status, err>>
           ELSE IF op(exp) = "select" THEN
               /\ Call([f EXCEPT !.pc = "sub_ret"], SelectFrame(f.env, exp))
               /\ trace' = [op |-> "subquery"]
               /\ UNCHANGED <<ret, status, err>>
           ELSE
               /\ throw(<<"unknown from clause">>)
               /\ trace' = [op |-> "throw"]
    /\ UNCHANGED <<classes, heap, root, scopes, query, corr, nbind>>

\* the variable of the next column is added with neededcols None, and bound
DsVar ==
    /\ At("get_datasource", "var")
    /\ LET f == Top
           colname == tables[f.tn][f.colnum + 1]
           varidx == NextIdx
       IN  /\ classes' = add_scalar_exp(classes, Exp("var", <<Qual(f.tn, colname)>>),
                                        [neededcols |-> None])
           /\ scopes' = [scopes EXCEPT ![f.env] = bind(scopes[f.env], f.tn, colname, varidx)]
           /\ Goto([f EXCEPT !.pc = "fix", !.varidx = varidx])
    /\ trace' = [op |-> "var"]
    /\ UNCHANGED <<heap, root, ret, status, err, query, corr, nbind>>

\* memo[varidx].props.neededcols = Set([varidx])
DsVarFix ==
    /\ At("get_datasource", "fix")
    /\ LET f == Top
           colname == tables[f.tn][f.colnum + 1]
       IN  /\ classes' = [classes EXCEPT ![f.varidx + 1].props.neededcols = NewRef(heap)]
           /\ heap' = Alloc(heap, {f.varidx})
           /\ Goto([f EXCEPT !.vars = Append(f.vars, f.varidx),
                             !.lbls = Append(f.lbls, colname),
                             !.colnum = f.colnum + 1,
                             !.pc = IF f.colnum + 1 < Len(tables[f.tn])
                                    THEN "var" ELSE "scan"])
    /\ trace' = [op |-> "varfix"]
    /\ UNCHANGED <<root, scopes, ret, status, err, query, corr, nbind>>

DsScan ==
    /\ At("get_datasource", "scan")
    /\ LET f == Top
       IN  /\ classes' = add_rel_exp(classes, Exp("scan", <<f.tn>>),
                                     ScanProps(f.vars, f.lbls, NewRef(heap)))
           /\ heap' = Alloc(heap, {})
    /\ Return(NextIdx)
    /\ trace' = [op |-> "scan"]
    /\ UNCHANGED <<root, scopes, status, err, query, corr, nbind>>

\* the subquery in FROM has been analyzed: its outputs are bound under '' in
\* env and its own outs are taken out of its neededcols, in place
DsSubquery ==
    /\ At("get_datasource", "sub_ret")
    /\ LET f == Top
           srcidx == ret
           p == Cls(srcidx).props
       IN  /\ scopes' = [scopes EXCEPT ![f.env] =
                            BindOutputs(scopes[f.env], p.labels, p.cols, 1)]
           /\ heap' = DifferenceUpdate(heap, p.neededcols, p.outs)
           /\ Return(srcidx)
    /\ trace' = [op |-> "reexport"]
    /\ UNCHANGED <<classes, root, status, err, query, corr, nbind>>

-----------------------------------------------------------------------------
(* sql.py: analyze_from.                                                   *)

\* the properties of the cross join of the sources analyzed
CrossProps(cols, outs, lbls, ref) ==
    [cols |-> cols, outs |-> outs, labels |-> lbls, neededcols |-> ref]

\* a single source is handed to get_datasource, whose result is the result;
\* a list starts the loop over its sources
FromBegin ==
    /\ At("analyze_from", "start")
    /\ LET f == Top
       IN  IF f.exp.t # "list" THEN
               /\ Goto(DsFrame(f.env, f.exp))
               /\ UNCHANGED <<classes, heap, ret>>
           ELSE IF Len(f.exp.items) = 0 THEN
               /\ classes' = add_rel_exp(classes, Exp("cross", <<>>),
                                         CrossProps(<<>>, {}, <<>>, NewRef(heap)))
               /\ heap' = Alloc(heap, {})
               /\ Return(NextIdx)
           ELSE
               /\ Call([f EXCEPT !.pc = "loop"], DsFrame(f.env, f.exp.items[1]))
               /\ UNCHANGED <<classes, heap, ret>>
    /\ trace' = [op |-> "from"]
    /\ UNCHANGED <<root, scopes, status, err, query, corr, nbind>>

\* a source of the list has been resolved: resolve the next, or add the cross
FromNext ==
    /\ At("analyze_from", "loop")
    /\ LET f == Top
           idx == ret
           p == Cls(idx).props
           g == [f EXCEPT !.idxs = Append(f.idxs, idx),
                          !.lbls = f.lbls \o p.labels,
                          !.cols = f.cols \o p.cols,
                          !.outs = f.outs \cup p.outs]
       IN  IF Len(g.idxs) < Len(f.exp.items) THEN
               /\ Call(g, DsFrame(f.env, f.exp.items[Len(g.idxs) + 1]))
               /\ trace' = [op |-> "from"]
               /\ UNCHANGED <<classes, heap, ret>>
           ELSE
               /\ classes' = add_rel_exp(classes, Exp("cross", g.idxs),
                                         CrossProps(g.cols, g.outs, g.lbls, NewRef(heap)))
               /\ heap' = Alloc(heap, {})
               /\ Return(NextIdx)
               /\ trace' = [op |-> "cross"]
    /\ UNCHANGED <<root, scopes, status, err, query, corr, nbind>>

-----------------------------------------------------------------------------
(* sql.py: analyze_select.                                                 *)

\* the properties of the unary pseudo-table
UnaryProps(ref) == [cols |-> <<>>, outs |-> {}, labels |-> <<>>, neededcols |-> ref]

\* the properties of a filter over class src: cols, outs and labels are those
\* of src (ref is the new Set of the needed columns, FilterNeeded)
FilterProps(cs, src, ref) ==
    [cols |-> cs[src + 1].props.cols, outs |-> cs[src + 1].props.outs,
     labels |-> cs[src + 1].props.labels, neededcols |-> ref]

\* memo[fidx].props.neededcols.difference(memo[srcidx].props.cols)
\* variant: the columns of the source are not subtracted
FilterNeededAll(h, cs, src, fidx) == NeededOf(h, cs, fidx)

FilterNeeded(h, cs, src, fidx) == NeededOf(h, cs, fidx) \ SetOf(cs[src + 1].props.cols)

\* the label and the expression of each projection target
TargetLabel(e) == IF e.t = "props" THEN e.key ELSE tocolname(e)

TargetExpr(e) == IF e.t = "props" THEN e.val ELSE e

\* variant: an identical projection is not elided
ProjectionRuleNoElide(cs, src, idxs, labels) ==
    IF SetOf(idxs) = cs[src + 1].props.outs THEN "relabel" ELSE "project"

\* which of the three projection cases applies to targets idxs with labels
ProjectionRule(cs, src, idxs, labels) ==
    IF idxs = cs[src + 1].props.cols /\ labels = cs[src + 1].props.labels THEN "elide"
    ELSE IF SetOf(idxs) = cs[src + 1].props.outs THEN "relabel"
    ELSE "project"

\* variant: the reordering is a project class over src
RelabelAsProject(cs, src, idxs, labels) ==
    add_rel_exp(cs, Exp("project", <<src>>),
                [cols |-> idxs, outs |-> SetOf(idxs), labels |-> labels,
                 neededcols |-> cs[src + 1].props.neededcols])

\* the class that copies src with the new order and labels: it has the
\* m-expression of src and the neededcols Set object of src
RelabelClass(cs, src, idxs, labels) ==
    add_rel_exp(cs, cs[src + 1].mexpr,
                [cols |-> idxs, outs |-> SetOf(idxs), labels |-> labels,
                 neededcols |-> cs[src + 1].props.neededcols])

\* variant: the projected columns are not subtracted
ProjectNeededAll(h, cs, src, idxs) == NeededOf(h, cs, src)

\* memo[srcidx].props.neededcols.difference(outs)
ProjectNeeded(h, cs, src, idxs) == NeededOf(h, cs, src) \ SetOf(idxs)

\* variant: outs is left empty
ProjectPropsNoOuts(idxs, labels, ref) ==
    [cols |-> idxs, outs |-> {}, labels |-> labels, neededcols |-> ref]

ProjectProps(idxs, labels, ref) ==
    [cols |-> idxs, outs |-> SetOf(idxs), labels |-> labels, neededcols |-> ref]

\* here = scope(env), then the FROM clause
SelectBegin ==
    /\ At("analyze_select", "start")
    /\ LET f == Top
           here == Len(scopes) + 1
       IN  IF op(f.exp) # "select" THEN
               /\ throw(<<"AssertionError">>)
               /\ trace' = [op |-> "throw"]
               /\ UNCHANGED <<classes, heap, scopes, query>>
           ELSE
               /\ scopes' = Append(scopes, NewScopeObj(f.env))
               /\ \E from \in FromChoices :
                     /\ Fits(from)
                     /\ query' = Append(query, from)
                     /\ IF from = Absent THEN
                            /\ classes' = add_rel_exp(classes, Exp("unary", <<>>),
                                                      UnaryProps(NewRef(heap)))
                            /\ heap' = Alloc(heap, {})
                            /\ Goto([f EXCEPT !.here = here, !.srcidx = NextIdx,
                                              !.pc = "where"])
                            /\ trace' = [op |-> "unary"]
                        ELSE
                            /\ Call([f EXCEPT !.here = here, !.pc = "from_ret"],
                                    FromFrame(here, from))
                            /\ trace' = [op |-> "select"]
                            /\ UNCHANGED <<classes, heap>>
               /\ UNCHANGED <<ret, status, err>>
    /\ UNCHANGED <<root, corr, nbind>>

\* the WHERE clause: its condition, if any, is analyzed in here
SelectWhere ==
    /\ status = "running" /\ Len(stack) > 0
    /\ Top.fn = "analyze_select" /\ Top.pc \in {"where", "from_ret"}
    /\ LET f == Top
           g == [f EXCEPT !.srcidx = IF f.pc = "from_ret" THEN ret ELSE f.srcidx]
       IN  \E where \in WhereChoices :
              /\ Fits(where)
              /\ query' = Append(query, where)
              /\ IF where = Absent
                 THEN Goto([g EXCEPT !.pc = "exprs"])
                 ELSE Call([g EXCEPT !.pc = "where_ret"], ScalarFrame(f.here, where))
    /\ trace' = [op |-> "where"]
    /\ UNCHANGED <<classes, heap, root, scopes, ret, status, err, corr, nbind>>

\* the filter class over the source and the condition
SelectFilter ==
    /\ At("analyze_select", "where_ret")
    /\ LET f == Top
           fidx == ret
       IN  /\ classes' = add_rel_exp(classes, Exp("filter", <<f.srcidx, fidx>>),
                                     FilterProps(classes, f.srcidx, NewRef(heap)))
           /\ heap' = Alloc(heap, FilterNeeded(heap, classes, f.srcidx, fidx))
           /\ Goto([f EXCEPT !.srcidx = NextIdx, !.pc = "exprs"])
    /\ trace' = [op |-> "filter"]
    /\ UNCHANGED <<root, scopes, ret, status, err, query, corr, nbind>>

\* the projection targets: their labels, then the analysis of the first
SelectExprs ==
    /\ At("analyze_select", "exprs")
    /\ LET f == Top
       IN  \E exprs0 \in ExprsChoices :
              /\ Fits(exprs0)
              /\ query' = Append(query, exprs0)
              /\ IF exprs0 = Absent THEN
                     /\ Return(f.srcidx)
                     /\ corr' = IF f.outer THEN corr \cup {f.srcidx} ELSE corr
                     /\ trace' = [op |-> "return", src |-> f.srcidx]
                 ELSE
                     LET exprs == IF exprs0.t = "list" THEN exprs0.items ELSE <<exprs0>>
                         labels == [i \in 1..Len(exprs) |-> TargetLabel(exprs[i])]
                         eexprs == [i \in 1..Len(exprs) |-> TargetExpr(exprs[i])]
                         g == [f EXCEPT !.labels = labels, !.eexprs = eexprs]
                     IN  /\ IF Len(eexprs) = 0
                            THEN Goto([g EXCEPT !.pc = "proj"])
                            ELSE Call([g EXCEPT !.pc = "target_ret"],
                                      ScalarFrame(f.here, eexprs[1]))
                         /\ trace' = [op |-> "exprs"]
                         /\ UNCHANGED <<ret, corr>>
    /\ UNCHANGED <<classes, heap, root, scopes, status, err, nbind>>

\* a target has been analyzed: analyze the next, or go on to the projection
SelectTarget ==
    /\ At("analyze_select", "target_ret")
    /\ LET f == Top
           g == [f EXCEPT !.idxs = Append(f.idxs, ret)]
       IN  IF Len(g.idxs) < Len(f.eexprs)
           THEN Call(g, ScalarFrame(f.here, f.eexprs[Len(g.idxs) + 1]))
           ELSE Goto([g EXCEPT !.pc = "proj"])
    /\ trace' = [op |-> "target"]
    /\ UNCHANGED <<classes, heap, root, scopes, ret, status, err, query, corr, nbind>>

\* the projection step: elide it, copy the source relabelled, or add a project
SelectProject ==
    /\ At("analyze_select", "proj")
    /\ LET f == Top
           rule == ProjectionRule(classes, f.srcidx, f.idxs, f.labels)
       IN  /\ trace' = [op |-> "projection", rule |-> rule, src |-> f.srcidx]
           /\ corr' = IF f.outer
                      THEN corr \cup {IF rule = "elide" THEN f.srcidx ELSE NextIdx}
                      ELSE corr
           /\ IF rule = "elide" THEN
                  /\ Return(f.srcidx)
                  /\ UNCHANGED <<classes, heap>>
              ELSE IF rule = "relabel" THEN
                  /\ classes' = RelabelClass(classes, f.srcidx, f.idxs, f.labels)
                  /\ Return(NextIdx)
                  /\ UNCHANGED heap
              ELSE
                  /\ classes' = add_rel_exp(classes, Exp("project", <<f.srcidx>>),
                                            ProjectProps(f.idxs, f.labels, NewRef(heap)))
                  /\ heap' = Alloc(heap, ProjectNeeded(heap, classes, f.srcidx, f.idxs))
                  /\ Return(NextIdx)
    /\ UNCHANGED <<root, scopes, status, err, query, nbind>>

-----------------------------------------------------------------------------

Next ==
    \/ HandleSql
    \/ HandleRoot
    \/ SelectBegin
    \/ SelectWhere
    \/ SelectFilter
    \/ SelectExprs
    \/ SelectTarget
    \/ SelectProject
    \/ FromBegin
    \/ FromNext
    \/ DsBegin
    \/ DsVar
    \/ DsVarFix
    \/ DsScan
    \/ DsSubquery
    \/ ScalarBegin
    \/ ScalarArg
    \/ ScalarSubquery

Spec == Init /\ [][Next]_vars

-----------------------------------------------------------------------------
(* Properties of the analyzer.                                             *)

ClassIdx == 0..(Len(classes) - 1)

RelIdx == {i \in ClassIdx : IsRel(Cls(i))}

\* the classes whose m-expression has operator o
WithOp(o) == {i \in ClassIdx : Cls(i).mexpr.op = o}

\* Exp.__eq__: same operator and same arguments
SameMexpr(e1, e2) == e1.op = e2.op /\ e1.args = e2.args

Running == status = "running" /\ Len(stack) > 0

\* C3: the scalar class of an EXISTS or of a scalar subquery whose inner
\* SELECT has a WHERE condition naming a column of the enclosing query has a
\* non-empty neededcols, whatever the inner SELECT projects.
C3_ExistsNeeded ==
    \A e \in WithOp("exists") \cup WithOp("apply") :
        Cls(e).mexpr.args[1] \in corr => neededcols(e) # {}

\* the columns needed by the scalar sub-expressions of the SELECT clause that
\* ends in project class p over source s: the projection targets and, when s
\* is a filter, its predicate
ScalarNeeds(p) ==
    LET src == Cls(Cls(p).mexpr.args[1])
    IN  UNION {neededcols(i) : i \in Cls(p).props.outs}
            \cup (IF src.mexpr.op = "filter" THEN neededcols(src.mexpr.args[2]) ELSE {})

\* C4: neededcols of a relational class is the set of its free variables: the
\* columns its scalar sub-expressions need minus the columns provided in the
\* SELECT clause; so for a filter over s with predicate f it is
\* neededcols(f) \ outs(s), and for a project class it is the union of the
\* needed columns of its targets (and of the filter predicate) minus the
\* columns the clause provides (those of its source and its own).
C4_ProjectFreeVars ==
    /\ \A i \in WithOp("filter") :
          neededcols(i) =
              neededcols(Cls(i).mexpr.args[2]) \ Cls(Cls(i).mexpr.args[1]).props.outs
    /\ \A p \in WithOp("project") :
          neededcols(p) =
              ScalarNeeds(p) \ (Cls(Cls(p).mexpr.args[1]).props.outs \cup Cls(p).props.outs)

\* C5: in every memo state, of a successful or of an aborted analysis, every
\* relational class has outs = set(cols) and as many labels as cols.
C5_ColsOutsLabels ==
    \A i \in RelIdx :
        /\ Cls(i).props.outs = SetOf(Cls(i).props.cols)
        /\ Len(Cls(i).props.cols) = Len(Cls(i).props.labels)

\* an aborted analysis that has left a cross join over a projection in the memo
C5_Witness ==
    /\ status = "error"
    /\ \E i \in WithOp("cross"), j \in WithOp("project") :
          /\ j \in SetOf(Cls(i).mexpr.args)
          /\ Len(Cls(i).props.cols) = 3

\* C6: in every memo state, the neededcols of a relational class is disjoint
\* from its own outs.
C6_NeededDisjoint ==
    \A i \in RelIdx : neededcols(i) \cap Cls(i).props.outs = {}

\* a finished analysis with a filter whose predicate needs a column of its
\* own source and one of an enclosing query
C6_Witness ==
    /\ status = "done"
    /\ \E i \in WithOp("filter") :
          /\ neededcols(i) # {}
          /\ neededcols(Cls(i).mexpr.args[2]) \cap Cls(i).props.outs # {}

AtProjection == Running /\ Top.fn = "analyze_select" /\ Top.pc = "proj"

\* the targets are exactly the cols of the source, under the same labels
SameAsSource ==
    /\ Top.idxs = Cls(Top.srcidx).props.cols
    /\ Top.labels = Cls(Top.srcidx).props.labels

\* C7: when the targets of a projection are exactly the cols of the current
\* source, in order, under the same labels, the projection step appends no
\* class and analyze_select returns the index of the source.
C7_Elision ==
    [][(AtProjection /\ SameAsSource)
          => (classes' = classes /\ heap' = heap /\ stack' = Rest /\ ret' = Top.srcidx)]_vars

\* the projection k, v over the scan of kv has just been elided
C7_Witness ==
    /\ trace.op = "projection" /\ trace.rule = "elide"
    /\ ret = trace.src
    /\ Cls(ret).mexpr.op = "scan"
    /\ Cls(ret).mexpr.args = <<kv>>
    /\ Len(classes) = 3

\* C8: when the set of the targets is outs(s) of the current source s and the
\* projection is not elided, exactly one class is appended: it has the
\* m-expression of s (it is no project over s), cols = the targets in order,
\* outs = their set, labels = the target labels and neededcols equal to that
\* of s; class s keeps its properties and the new class is the result.
C8_Relabel ==
    [][(AtProjection /\ ~SameAsSource /\ SetOf(Top.idxs) = Cls(Top.srcidx).props.outs)
          => /\ Len(classes') = Len(classes) + 1
             /\ SubSeq(classes', 1, Len(classes)) = classes
             /\ SameMexpr(classes'[Len(classes')].mexpr, Cls(Top.srcidx).mexpr)
             /\ ~(/\ classes'[Len(classes')].mexpr.op = "project"
                   /\ classes'[Len(classes')].mexpr.args = <<Top.srcidx>>)
             /\ classes'[Len(classes')].props.cols = Top.idxs
             /\ classes'[Len(classes')].props.outs = SetOf(Top.idxs)
             /\ classes'[Len(classes')].props.labels = Top.labels
             /\ NeededOf(heap', classes', Len(classes)) = neededcols(Top.srcidx)
             /\ NeededOf(heap', classes', Top.srcidx) = neededcols(Top.srcidx)
             /\ stack' = Rest
             /\ ret' = Len(classes)]_vars

\* the projection v, k over the scan of kv has just been added as a copy of
\* the scan
C8_Witness ==
    /\ trace.op = "projection" /\ trace.rule = "relabel"
    /\ ret = Len(classes) - 1
    /\ Cls(ret).mexpr.op = "scan"
    /\ Cls(ret).mexpr.args = <<kv>>
    /\ Cls(ret).props.cols = <<1, 0>>
    /\ Cls(ret).props.labels = <<v, k>>
    /\ Cls(trace.src).props.cols = <<0, 1>>

FirstOfMexpr(i) == \A j \in ClassIdx : j < i => ~SameMexpr(Cls(j).mexpr, Cls(i).mexpr)

View(i) == [mexpr |-> Cls(i).mexpr, props |-> [Cls(i).props EXCEPT !.neededcols = neededcols(i)]]

ScenarioA == <<Sym(kv), Absent, Op("+", <<Sym(k), Sym(v)>>)>>

\* C10: for (select :exprs (+ k v) :from kv) on an empty memo the classes
\* are, in order, the variables of kv.k and kv.v, the scan of kv, the class
\* of (+ 0 1) and the project over the scan, which is the root.
C10_ScenarioA ==
    (status = "done" /\ query = ScenarioA) =>
        /\ Len(classes) = 5
        /\ root = 4
        /\ View(0) = [mexpr |-> Exp("var", <<Qual(kv, k)>>), props |-> [neededcols |-> {0}]]
        /\ View(1) = [mexpr |-> Exp("var", <<Qual(kv, v)>>), props |-> [neededcols |-> {1}]]
        /\ View(2) = [mexpr |-> Exp("scan", <<kv>>),
                      props |-> [cols |-> <<0, 1>>, outs |-> {0, 1},
                                 labels |-> <<k, v>>, neededcols |-> {}]]
        /\ View(3) = [mexpr |-> Exp("+", <<0, 1>>), props |-> [neededcols |-> {0, 1}]]
        /\ View(4) = [mexpr |-> Exp("project", <<2>>),
                      props |-> [cols |-> <<3>>, outs |-> {3},
                                 labels |-> << <<"(", "+", " ", "k", " ", "v", ")">> >>,
                                 neededcols |-> {}]]

C10_Witness == status = "done" /\ query = ScenarioA /\ root = 4

\* get_datasource is about to resolve a table name that is not in the catalog
AtUnknownTable ==
    /\ Running /\ Top.fn = "get_datasource" /\ Top.pc = "start"
    /\ Top.exp.t = "sym"
    /\ Top.exp.name \notin DOMAIN tables

\* C11: resolving a FROM source that is a table name absent from the catalog
\* fails with the error "unknown table: <name>"; the step appends no class
\* and binds nothing, so memo and scopes are as they were when the resolution
\* began; and the root of the memo of a failed query is never set.
C11_UnknownTable ==
    /\ [][AtUnknownTable =>
            /\ status' = "error"
            /\ err' = <<"unknown table: ">> \o Top.exp.name
            /\ classes' = classes
            /\ heap' = heap
            /\ scopes' = scopes
            /\ root' = root]_vars
    /\ [](status = "error" => root = None)

\* the table zz of a subquery was not found after the outer FROM kv had been
\* analyzed
C11_Witness ==
    /\ status = "error"
    /\ err = <<"unknown table: ">> \o zz
    /\ Len(classes) = 3
    /\ root = None
    /\ \E i \in DOMAIN scopes : scopes[i].scope # <<>>

RECURSIVE Ancestors(_, _)
\* the scopes above s on its parent chain
Ancestors(scs, s) ==
    IF scs[s].parent = None THEN {}
    ELSE {scs[s].parent} \cup Ancestors(scs, scs[s].parent)

\* the scopes from d up to s, s excluded (d is s or a descendant of s)
Between(scs, d, s) == ({d} \cup Ancestors(scs, d)) \ ({s} \cup Ancestors(scs, s))

\* scope c itself binds colname for alias tn; for the anonymous alias, under
\* any alias
Shadows(sc, tn, colname) ==
    IF tn = <<>> THEN BareBinders(sc, colname) # {}
    ELSE GetOrNone(GetOrEmpty(sc.scope, tn), colname) # None

AllNames ==
    {k, v, a, x, Str("b")}
        \cup {Qual(t, tables[t][i]) : t \in DOMAIN tables, i \in 1..2}

\* C13: analyze_select never modifies the scope its caller passes in: while
\* a call is in progress and when it returns or fails, every lookup through
\* the caller's scope gives the same result after each step as before it.
\* An existing scope changes only in get_datasource, on the scope of the
\* clause whose FROM it resolves: by the bindings of a table's columns, or,
\* for a subquery in FROM, by bindings under the anonymous alias alone.
C13_CallerScope ==
    [][/\ \A j \in DOMAIN stack :
             stack[j].fn = "analyze_select" =>
                 \A n \in AllNames :
                     lookup(scopes', stack[j].env, n) = lookup(scopes, stack[j].env, n)
       /\ \A e \in DOMAIN scopes :
             scopes'[e] # scopes[e] =>
                 /\ Running /\ Top.fn = "get_datasource" /\ Top.env = e
                 /\ Top.pc \in {"var", "sub_ret"}
                 /\ Top.pc = "sub_ret" =>
                       /\ Keys(scopes'[e].scope) \subseteq Keys(scopes[e].scope) \cup {<<>>}
                       /\ \A tn \in DOMAIN tables :
                             GetOrEmpty(scopes'[e].scope, tn) = GetOrEmpty(scopes[e].scope, tn)]_vars

\* a subquery in FROM has returned to a clause that had already bound the
\* columns of kv, and its output labels have been re-exported
C13_Witness ==
    /\ trace.op = "reexport"
    /\ Len(scopes) >= 3
    /\ \E e \in DOMAIN scopes :
          /\ kv \in Keys(scopes[e].scope)
          /\ <<>> \in Keys(scopes[e].scope)
          /\ GetOrEmpty(scopes[e].scope, <<>>) # GetOrEmpty(<<>>, <<>>)

\* what class idx has as neededcols in memo cs with heap h: no value while it
\* is None, else the value of the Set
NeededVal(h, cs, idx) ==
    IF cs[idx + 1].props.neededcols = None THEN <<>>
    ELSE <<h[cs[idx + 1].props.neededcols]>>

\* the class at index idx of memo cs has the same representation and the
\* same cols, outs and labels (if any) after the step
SameShape(idx) ==
    /\ SameMexpr(classes'[idx + 1].mexpr, classes[idx + 1].mexpr)
    /\ DOMAIN classes'[idx + 1].props = DOMAIN classes[idx + 1].props
    /\ \A key \in DOMAIN classes[idx + 1].props \ {"neededcols"} :
          classes'[idx + 1].props[key] = classes[idx + 1].props[key]

\* the step is the fix-up of the variable idx, the last class of the memo
IsFixUp(idx) ==
    /\ Running /\ Top.fn = "get_datasource" /\ Top.pc = "fix"
    /\ idx = Len(classes) - 1
    /\ Cls(idx).mexpr.op = "var"
    /\ NeededVal(heap, classes, idx) = <<>>
    /\ NeededVal(heap', classes', idx) = << {idx} >>

\* the step is the subtraction of outs(r) from neededcols(r) for the result
\* r = idx of a subquery in FROM, and no other class sees its value change
IsSubtraction(idx) ==
    /\ Running /\ Top.fn = "get_datasource" /\ Top.pc = "sub_ret"
    /\ idx = ret
    /\ NeededVal(heap', classes', idx) = << neededcols(idx) \ Cls(idx).props.outs >>
    /\ \A j \in ClassIdx \ {idx} :
          NeededVal(heap', classes', j) = NeededVal(heap, classes, j)

\* C14: the representation, cols, outs and labels of a class never change;
\* the value of its neededcols changes only by the fix-up of a scan variable,
\* done while the variable is the last class, or by the subtraction of
\* outs(r) from neededcols(r) for a subquery r in FROM, which changes the
\* value seen by no other class; and no property of a class changes in value
\* once a later class exists.
C14_ClassesStable ==
    [][\A i \in ClassIdx :
          /\ Len(classes') >= Len(classes)
          /\ SameShape(i)
          /\ NeededVal(heap', classes', i) # NeededVal(heap, classes, i)
                => (IsFixUp(i) \/ IsSubtraction(i))
          /\ i < Len(classes) - 1
                => NeededVal(heap', classes', i) = NeededVal(heap, classes, i)]_vars

\* the subtraction has just been applied to the result of a subquery in FROM
\* that shares its neededcols Set with another class
C14_Witness ==
    /\ trace.op = "reexport"
    /\ \E j \in ClassIdx \ {ret} :
          Cls(j).props.neededcols = Cls(ret).props.neededcols

\* the step hands the index idx of the class it appends to the code that
\* asked for it: as the value returned, or as the local varidx or srcidx
HandsOut(idx) ==
    \/ stack' = Rest /\ ret' = idx
    \/ /\ Len(stack') = Len(stack)
       /\ stack'[Len(stack')].fn = "get_datasource"
       /\ stack'[Len(stack')].varidx = idx
    \/ /\ Len(stack') = Len(stack)
       /\ stack'[Len(stack')].fn = "analyze_select"
       /\ stack'[Len(stack')].srcidx = idx

\* C15: the memo is append-only: its length never decreases, a step appends
\* at most one class and the index newcls returns for it is the previous
\* length of the memo (so indices grow in allocation order and none is
\* reused), and every class stays at its index.
C15_AppendOnly ==
    [][/\ Len(classes') \in {Len(classes), Len(classes) + 1}
       /\ \A i \in ClassIdx : SameShape(i)
       /\ Len(classes') = Len(classes) + 1 => HandsOut(Len(classes))]_vars

\* an operator class has just been appended to a memo of four classes and
\* its index returned
C15_Witness ==
    /\ trace.op = "operator"
    /\ Len(classes) = 5
    /\ ret = 4

Ended == status \in {"done", "error"}

\* C16: once a later class exists or the analysis has ended, every variable
\* class v that a scan introduced has neededcols(v) = {index of v}, whatever
\* filters, projections, subqueries and subtractions came after it.
C16_VarSelfNeeded ==
    \A i \in WithOp("var") :
        (i < Len(classes) - 1 \/ Ended) => NeededVal(heap, classes, i) = << {i} >>

\* a finished analysis with variables, a filter, a projection and a subquery
C16_Witness ==
    /\ status = "done"
    /\ WithOp("var") # {}
    /\ WithOp("filter") # {}
    /\ WithOp("project") # {}
    /\ WithOp("exists") \cup WithOp("apply") # {}

\* the operands of the representation of class i that are memo indices: a
\* variable holds a column name, a scan a table name, a literal its value
IndexOperands(i) ==
    IF Cls(i).mexpr.op \in {"var", "scan", "lit"} THEN {}
    ELSE SetOf(Cls(i).mexpr.args)

\* the indices in the cols and outs (if any) and in the neededcols of class i
PropIndices(i) ==
    (IF IsRel(Cls(i)) THEN SetOf(Cls(i).props.cols) \cup Cls(i).props.outs ELSE {})
        \cup (IF Cls(i).props.neededcols = None THEN {} ELSE neededcols(i))

\* C17: the memo is a DAG: in every state, the memo-index operands of the
\* representation of class i are indices of classes below i (relabelled
\* copies included), and every index in cols, outs and neededcols of class
\* i is the index of a class and is at most i, equal to i only in the
\* neededcols of a scan variable.
C17_Dag ==
    \A i \in ClassIdx :
        /\ \A j \in IndexOperands(i) : j \in ClassIdx /\ j < i
        /\ \A j \in PropIndices(i) :
              /\ j \in ClassIdx
              /\ j <= i
              /\ j = i => Cls(i).mexpr.op = "var"

\* a finished analysis with a subquery class and a relabelled copy, which has
\* the operands of the class it copies
C17_Witness ==
    /\ status = "done"
    /\ WithOp("exists") # {}
    /\ \E i \in ClassIdx, j \in WithOp("filter") :
          i < j /\ SameMexpr(Cls(i).mexpr, Cls(j).mexpr)

=============================================================================
